---- MODULE Spec2Model ----
(***************************************************************************)
(* Model of task1/main.py: an in-memory address book (Record, AddressBook), *)
(* its command handlers behind the input_error adapter, and the command    *)
(* loop of main().                                                          *)
(*                                                                         *)
(* A Python str is a sequence of one-character strings.  A Python value    *)
(* handed to a constructor is [type |-> "str" | "Phone", v |-> chars].     *)
(* A date is [y, m, d]; a datetime is [date, tick], tick 0 being midnight. *)
(* An optional value is a sequence of length 0 (None) or 1.                *)
(***************************************************************************)
EXTENDS Integers, Sequences, FiniteSets, TLC

VARIABLES data, call, exc, ret, out, today, loop

vars == <<data, call, exc, ret, out, today, loop>>

----------------------------------------------------------------------------
(* Bounds of the model *)

\* most phones Record.add_phone is let to put in the store, all records
\* together
MaxPhones == 2
\* first calendar year datetime.now() is drawn from
FirstYear == 2023
\* number of consecutive years datetime.now() is drawn from
NumYears == 2
\* instants of a day datetime.now() is drawn from (0 is midnight)
TicksPerDay == 2

----------------------------------------------------------------------------
(* Strings *)

DigitChars == <<"0", "1", "2", "3", "4", "5", "6", "7", "8", "9">>

Digits == {DigitChars[i] : i \in 1..10}

DigitVal(c) == (CHOOSE i \in 1..10 : DigitChars[i] = c) - 1

\* str.isdigit(): non-empty and every character a digit
isdigit(s) == Len(s) > 0 /\ \A i \in 1..Len(s) : s[i] \in Digits

RECURSIVE NumVal(_)
NumVal(s) == IF Len(s) = 0 THEN 0
             ELSE 10 * NumVal(SubSeq(s, 1, Len(s) - 1)) + DigitVal(s[Len(s)])

Str(s) == [type |-> "str", v |-> s]

None == <<>>

Some(x) == <<x>>

----------------------------------------------------------------------------
(* Validated fields *)

\* Name.validate: isinstance(value, str) and len(value) > 1
Name_validate(value) == value.type = "str" /\ Len(value.v) > 1

\* Phone.validate: len(value) == 10 and value.isdigit(); len() of a Phone
\* object raises TypeError
Phone_validate(value) ==
    IF value.type # "str" THEN "TypeError"
    ELSE IF Len(value.v) = 10 /\ isdigit(value.v) THEN "True" ELSE "False"

----------------------------------------------------------------------------
(* Calendar of datetime *)

IsLeap(y) == y % 4 = 0 /\ (y % 100 # 0 \/ y % 400 = 0)

DaysInMonth(y, m) ==
    IF m = 2 THEN (IF IsLeap(y) THEN 29 ELSE 28)
    ELSE IF m \in {4, 6, 9, 11} THEN 30 ELSE 31

DaysBeforeYear(y) ==
    (y - 1) * 365 + (y - 1) \div 4 - (y - 1) \div 100 + (y - 1) \div 400

RECURSIVE DaysBeforeMonth(_, _)
DaysBeforeMonth(y, m) ==
    IF m = 1 THEN 0 ELSE DaysBeforeMonth(y, m - 1) + DaysInMonth(y, m - 1)

toordinal(dt) == DaysBeforeYear(dt.y) + DaysBeforeMonth(dt.y, dt.m) + dt.d

\* date.weekday(): 0 is Monday, 6 is Sunday
weekday(dt) == (toordinal(dt) + 6) % 7

NextDay(dt) ==
    IF dt.d < DaysInMonth(dt.y, dt.m) THEN [dt EXCEPT !.d = dt.d + 1]
    ELSE IF dt.m < 12 THEN [y |-> dt.y, m |-> dt.m + 1, d |-> 1]
    ELSE [y |-> dt.y + 1, m |-> 1, d |-> 1]

\* date + timedelta(days=n), n >= 0
RECURSIVE AddDays(_, _)
AddDays(dt, n) == IF n = 0 THEN dt ELSE AddDays(NextDay(dt), n - 1)

\* datetime.replace(year=y): None stands for the ValueError of a day that
\* the month of year y does not have
replace_year(dt, y) ==
    IF dt.d <= DaysInMonth(y, dt.m) THEN Some([dt EXCEPT !.y = y]) ELSE None

\* a datetime as a number of ticks, for the comparisons of datetimes
Instant(dt, tick) == toordinal(dt) * TicksPerDay + tick

TwoDigits(n) == <<DigitChars[(n \div 10) + 1], DigitChars[(n % 10) + 1]>>

\* strftime('%d.%m.%Y')
strftime(dt) ==
    TwoDigits(dt.d) \o <<".">> \o TwoDigits(dt.m) \o <<".">>
    \o TwoDigits(dt.y \div 100) \o TwoDigits(dt.y % 100)

DotsOf(s) == {i \in 1..Len(s) : s[i] = "."}

\* %d: 3[0-1]|[1-2]\d|0[1-9]|[1-9]| [1-9]
DayField(s) ==
    \/ Len(s) = 1 /\ isdigit(s) /\ NumVal(s) >= 1
    \/ Len(s) = 2 /\ isdigit(s) /\ NumVal(s) \in 1..31
    \/ Len(s) = 2 /\ s[1] = " " /\ s[2] \in Digits /\ s[2] # "0"

\* %m: 1[0-2]|0[1-9]|[1-9]
MonthField(s) ==
    \/ Len(s) = 1 /\ isdigit(s) /\ NumVal(s) >= 1
    \/ Len(s) = 2 /\ isdigit(s) /\ NumVal(s) \in 1..12

\* %Y: \d\d\d\d
YearField(s) == Len(s) = 4 /\ isdigit(s)

FieldVal(s) == IF s[1] = " " THEN NumVal(Tail(s)) ELSE NumVal(s)

\* Birthday.str_to_datetime: datetime.strptime(value, "%d.%m.%Y"); None
\* stands for ValueError("Invalid date format. Use DD.MM.YYYY")
str_to_datetime(value) ==
    LET dots == DotsOf(value) IN
    IF Cardinality(dots) # 2 THEN None
    ELSE
      LET i1 == CHOOSE i \in dots : \A j \in dots : i <= j
          i2 == CHOOSE i \in dots : \A j \in dots : j <= i
          ds == SubSeq(value, 1, i1 - 1)
          ms == SubSeq(value, i1 + 1, i2 - 1)
          ys == SubSeq(value, i2 + 1, Len(value))
      IN IF ~(DayField(ds) /\ MonthField(ms) /\ YearField(ys)) THEN None
         ELSE LET dv == FieldVal(ds)
                  mv == NumVal(ms)
                  yv == NumVal(ys)
              IN IF yv >= 1 /\ dv <= DaysInMonth(yv, mv)
                 THEN Some([y |-> yv, m |-> mv, d |-> dv])
                 ELSE None

----------------------------------------------------------------------------
(* Record: [name, phones, birthday].  An operation on a record yields       *)
(* [exc, rec]: the exception it raises ("none" if it returns) and the       *)
(* record as the call leaves it.                                            *)

Returns(r) == [exc |-> "none", rec |-> r]

Raises(e, r) == [exc |-> e, rec |-> r]

\* Record.__init__: Name(name) raises NameValidationError
NewRecord(name) ==
    IF Name_validate(Str(name))
    THEN Returns([name |-> name, phones |-> <<>>, birthday |-> None])
    ELSE Raises("NameValidationError",
                [name |-> name, phones |-> <<>>, birthday |-> None])

\* Record.add_birthday: Birthday(string) raises ValueError before the
\* assignment
Record_add_birthday(rec, string) ==
    LET parsed == str_to_datetime(string) IN
    IF parsed = None THEN Raises("ValueError", rec)
    ELSE Returns([rec EXCEPT !.birthday = parsed])

\* add_phone without the validation of Phone(value)
add_phone_Unvalidated(rec, value) ==
    Returns([rec EXCEPT !.phones = Append(@, value.v)])

\* Record.add_phone: self.phones.append(Phone(value))
add_phone(rec, value) ==
    LET ok == Phone_validate(value) IN
    IF ok = "TypeError" THEN Raises("TypeError", rec)
    ELSE IF ok = "False" THEN Raises("PhoneValidationError", rec)
    ELSE Returns([rec EXCEPT !.phones = Append(@, value.v)])

RemoveAt(s, i) == SubSeq(s, 1, i - 1) \o SubSeq(s, i + 1, Len(s))

\* Record.remove_phone: removes the first phone whose value is `value`
remove_phone(rec, value) ==
    LET hits == {i \in 1..Len(rec.phones) : rec.phones[i] = value} IN
    IF hits = {} THEN Raises("ValueError", rec)
    ELSE LET i == CHOOSE k \in hits : \A j \in hits : k <= j
         IN Returns([rec EXCEPT !.phones = RemoveAt(@, i)])

\* Record.find_phone
find_phone(rec, value) ==
    LET hits == {i \in 1..Len(rec.phones) : rec.phones[i] = value} IN
    IF hits = {} THEN None
    ELSE Some(rec.phones[CHOOSE k \in hits : \A j \in hits : k <= j])

\* edit_phone that removes the old phone before it validates the new one
edit_phone_RemoveFirst(rec, old_value, new_value) ==
    LET removed == remove_phone(rec, old_value) IN
    IF removed.exc # "none" THEN removed
    ELSE add_phone(removed.rec, Str(new_value))

\* Record.edit_phone
edit_phone(rec, old_value, new_value) ==
    IF Phone_validate(Str(new_value)) = "True"
    THEN LET removed == remove_phone(rec, old_value) IN
         IF removed.exc # "none" THEN removed
         ELSE add_phone(removed.rec, Str(new_value))
    ELSE Raises("PhoneValidationError", rec)

RECURSIVE Join(_, _)
Join(sep, strs) ==
    IF Len(strs) = 0 THEN <<>>
    ELSE IF Len(strs) = 1 THEN strs[1]
    ELSE strs[1] \o sep \o Join(sep, Tail(strs))

----------------------------------------------------------------------------
(* AddressBook: the records of self.data in insertion order, one per key.  *)

Keys(book) == {book[i].name : i \in 1..Len(book)}

IndexOf(book, name) ==
    IF name \in Keys(book)
    THEN CHOOSE i \in 1..Len(book) : book[i].name = name
    ELSE 0

\* AddressBook.find: self.data.get(name)
find(book, name) ==
    IF IndexOf(book, name) = 0 THEN None ELSE Some(book[IndexOf(book, name)])

\* AddressBook.add_record: self.data[record.name.value] = record
add_record(book, record) ==
    IF IndexOf(book, record.name) = 0 THEN Append(book, record)
    ELSE [book EXCEPT ![IndexOf(book, record.name)] = record]

\* the record a handler holds is the object in the store: a mutation of it
\* is a mutation of the store
Store(book, record) == [book EXCEPT ![IndexOf(book, record.name)] = record]

\* AddressBook.delete: None stands for ValueError
delete(book, name) ==
    IF IndexOf(book, name) = 0 THEN None
    ELSE Some(RemoveAt(book, IndexOf(book, name)))

WindowDays == 7

\* lines 107-116: the greeting date of one birthday before the weekend
\* roll, as [exc, date]
Greeting(birthday, now) ==
    LET thisYear == replace_year(birthday, now.date.y)
        t0 == Instant(now.date, now.tick)
        t7 == Instant(AddDays(now.date, WindowDays), now.tick)
    IN IF thisYear = None THEN [exc |-> "ValueError", date |-> None]
       ELSE LET b == Instant(thisYear[1], 0) IN
            IF t0 <= b /\ b <= t7 THEN [exc |-> "none", date |-> thisYear]
            ELSE IF b < t0
            THEN LET nextYear == replace_year(thisYear[1], now.date.y + 1) IN
                 IF nextYear = None THEN [exc |-> "ValueError", date |-> None]
                 ELSE IF Instant(nextYear[1], 0) <= t7
                      THEN [exc |-> "none", date |-> nextYear]
                      ELSE [exc |-> "none", date |-> None]
            ELSE [exc |-> "none", date |-> None]

\* the roll computed from isoweekday() (1 is Monday) in place of weekday()
Rollover_IsoWeekday(greeting_date) ==
    IF weekday(greeting_date) >= 5
    THEN AddDays(greeting_date, 7 - (weekday(greeting_date) + 1))
    ELSE greeting_date

\* lines 118-120: a greeting date on Saturday or Sunday moves forward
Rollover(greeting_date) ==
    IF weekday(greeting_date) >= 5
    THEN AddDays(greeting_date, 7 - weekday(greeting_date))
    ELSE greeting_date

\* the loop of get_upcoming_birthdays from record i on
RECURSIVE Upcoming(_, _, _, _)
Upcoming(book, now, i, acc) ==
    IF i > Len(book) THEN [exc |-> "none", list |-> acc]
    ELSE IF book[i].birthday = None THEN Upcoming(book, now, i + 1, acc)
    ELSE LET g == Greeting(book[i].birthday[1], now) IN
         IF g.exc # "none" THEN [exc |-> g.exc, list |-> <<>>]
         ELSE IF g.date = None THEN Upcoming(book, now, i + 1, acc)
         ELSE Upcoming(book, now, i + 1,
                       Append(acc, [name |-> book[i].name,
                                    birthday |-> strftime(Rollover(g.date[1]))]))

NoUpcoming == "There are no upcoming birthdays yet"

\* AddressBook.get_upcoming_birthdays: [exc, list, str]; str is the
\* sentinel returned in place of an empty list
get_upcoming_birthdays(book, now) ==
    LET r == Upcoming(book, now, 1, <<>>) IN
    [exc |-> r.exc, list |-> r.list,
     str |-> IF r.exc = "none" /\ r.list = <<>> THEN NoUpcoming ELSE ""]

----------------------------------------------------------------------------
(* Command handlers.  A handler yields [exc, data, ret, out]: the exception *)
(* that escapes it, the store as it leaves it, the value it returns and the *)
(* lines it prints.  A returned or printed string is [text, arg]: a fixed   *)
(* text and the characters formatted into it.                               *)

Msg(t) == [text |-> t, arg |-> <<>>]

Fmt(t, a) == [text |-> t, arg |-> a]

NoneRet == Msg("None")

Return(book, r) == [exc |-> "none", data |-> book, ret |-> r, out |-> <<>>]

Raise(e, book) == [exc |-> e, data |-> book, ret |-> NoneRet, out |-> <<>>]

\* input_error: ValueError, KeyError and IndexError become fixed messages;
\* any other exception escapes
input_error(r) ==
    IF r.exc = "ValueError"
    THEN [r EXCEPT !.exc = "none", !.ret = Msg("Give me name and phone, please.")]
    ELSE IF r.exc = "KeyError"
    THEN [r EXCEPT !.exc = "none", !.ret = Msg("This contact does not exist.")]
    ELSE IF r.exc = "IndexError"
    THEN [r EXCEPT !.exc = "none", !.ret = Msg("Not enough arguments.")]
    ELSE r

PhoneObj(chars) == [type |-> "Phone", v |-> chars]

\* lines 191-194 of add_contact: the record is in the store by now
AddContactPhone(book, record, phone, message) ==
    IF Len(phone) = 0 THEN Return(book, Msg(message))
    ELSE IF Phone_validate(Str(phone)) # "True"
    THEN Raise("PhoneValidationError", book)
    ELSE LET added == add_phone(record, PhoneObj(phone)) IN
         IF added.exc # "none" THEN Raise(added.exc, book)
         ELSE Return(Store(book, added.rec), Msg(message))

add_contact(args, book) ==
    input_error(
      IF Len(args) < 2 THEN Raise("ValueError", book)
      ELSE LET name == args[1]
               phone == args[2]
           IN IF find(book, name) = None
              THEN LET created == NewRecord(name) IN
                   IF created.exc # "none" THEN Raise(created.exc, book)
                   ELSE AddContactPhone(add_record(book, created.rec),
                                        created.rec, phone, "Contact added.")
              ELSE AddContactPhone(book, find(book, name)[1], phone,
                                   "Contact updated."))

\* lines 174-180 of change_contact
ChangeContactEdit(book, record, old_phone, new_phone, new_birthday) ==
    LET edited == IF Len(old_phone) > 0 /\ Len(new_phone) > 0
                  THEN edit_phone(record, old_phone, new_phone)
                  ELSE Returns(record)
    IN IF edited.exc # "none" THEN Raise(edited.exc, book)
       ELSE LET book1 == Store(book, edited.rec)
                dated == IF new_birthday # None
                            /\ Len(new_birthday[1]) > 0
                         THEN Record_add_birthday(edited.rec, new_birthday[1])
                         ELSE Returns(edited.rec)
            IN IF dated.exc # "none" THEN Raise(dated.exc, book1)
               ELSE Return(Store(book1, dated.rec),
                           Fmt("Contact {name} updated successfully.",
                               record.name))

change_contact(args, book) ==
    input_error(
      IF Len(args) = 0 THEN Raise("IndexError", book)
      ELSE LET name == args[1]
               new_birthday == IF Len(args) > 2 /\ isdigit(args[Len(args)])
                               THEN Some(args[Len(args)]) ELSE None
           IN IF Len(args) = 1 THEN Raise("TypeError", book)
              ELSE IF Len(args) = 2 THEN Raise("ValueError", book)
              ELSE IF find(book, name) = None
              THEN Return(book, Fmt("Contact {name} not found.", name))
              ELSE ChangeContactEdit(book, find(book, name)[1],
                                     args[2], args[3], new_birthday))

add_birthday(args, book) ==
    input_error(
      IF Len(args) < 2 THEN Raise("ValueError", book)
      ELSE LET name == args[1]
               birthday == args[2]
           IN IF find(book, name) = None
              THEN Return(book, Fmt("Contact {name} not found.", name))
              ELSE LET dated == Record_add_birthday(find(book, name)[1], birthday)
                   IN IF dated.exc # "none" THEN Raise(dated.exc, book)
                      ELSE Return(Store(book, dated.rec), Msg("Contact updated.")))

show_birthday(args, book) ==
    input_error(
      IF Len(args) < 1 THEN Raise("ValueError", book)
      ELSE LET name == args[1] IN
           IF find(book, name) = None
           THEN Return(book, Fmt("Birthday for {name} not found.", name))
           ELSE IF find(book, name)[1].birthday = None
           THEN Return(book, Msg("Birthday is None"))
           ELSE Return(book, Fmt("{birthday}",
                                 strftime(find(book, name)[1].birthday[1]))))

show_phone(args, book) ==
    input_error(
      IF Len(args) < 1 THEN Raise("ValueError", book)
      ELSE LET name == args[1] IN
           IF find(book, name) = None
           THEN Return(book, Fmt("Contact {name} not found.", name))
           ELSE IF find(book, name)[1].phones = <<>>
           THEN Return(book, Msg("No phones found."))
           ELSE Return(book, Fmt("{phones}",
                                 Join(<<",", " ">>, find(book, name)[1].phones))))

Spaces(n) == [i \in 1..n |-> " "]

\* format spec ^12: centred in 12 columns, the odd space on the right
Center12(s) ==
    IF Len(s) >= 12 THEN s
    ELSE Spaces((12 - Len(s)) \div 2) \o s
         \o Spaces((12 - Len(s)) - (12 - Len(s)) \div 2)

ShowAllRow(record) ==
    Center12(record.name) \o <<"|">>
    \o Center12(strftime(record.birthday[1])) \o <<"|">>
    \o Join(<<",", " ">>, record.phones)

\* show_all: record.birthday.value of a record without a birthday raises
\* AttributeError
show_all(book) ==
    input_error(
      IF Len(book) = 0 THEN Return(book, Msg("No contacts."))
      ELSE IF \E i \in 1..Len(book) : book[i].birthday = None
      THEN Raise("AttributeError", book)
      ELSE Return(book, Fmt("{rows}",
                            Join(<<"\n">>,
                                 [i \in 1..Len(book) |-> ShowAllRow(book[i])]))))

\* birthdays: prints the sentinel or one line per entry and returns None
birthdays(book, now) ==
    input_error(
      LET upcoming == get_upcoming_birthdays(book, now) IN
      IF upcoming.exc # "none" THEN Raise(upcoming.exc, book)
      ELSE IF upcoming.str # ""
      THEN [Return(book, NoneRet) EXCEPT !.out = <<Msg(upcoming.str)>>]
      ELSE [Return(book, NoneRet) EXCEPT !.out =
              [i \in 1..Len(upcoming.list) |->
                 Fmt("{name} : {birthday}",
                     upcoming.list[i].name \o <<" ", ":", " ">>
                     \o upcoming.list[i].birthday)]])

----------------------------------------------------------------------------
(* Inputs *)

Al == <<"A", "l">>

Bo == <<"B", "o">>

OneLetter == <<"A">>

P1 == <<"1", "2", "3", "4", "5", "6", "7", "8", "9", "0">>

P2 == <<"0", "9", "8", "7", "6", "5", "4", "3", "2", "1">>

ShortPhone == <<"1", "2", "3", "4", "5">>

AlphaPhone == <<"1", "2", "3", "4", "5", "a", "b", "c", "d", "e">>

D1 == <<"0", "1", ".", "0", "1", ".", "1", "9", "9", "0">>

DLeap == <<"2", "9", ".", "0", "2", ".", "2", "0", "0", "0">>

DBad == <<"2", "9", ".", "0", "2", ".", "2", "0", "2", "3">>

D3012 == <<"3", "0", ".", "1", "2", ".", "1", "9", "9", "5">>

D3112 == <<"3", "1", ".", "1", "2", ".", "1", "9", "8", "5">>

StoredNames == {Al, Bo}

ValidPhones == {P1, P2}

PhoneInputs == {P1, P2, ShortPhone, AlphaPhone}

DateInputs == {D1, DBad}

\* the birthdays of the stores the birthday query is run on
BirthdayInputs == {D1, DLeap, D3012, D3112}

AddArgs ==
    {<<>>, <<Al>>}
    \cup {<<n, p>> : n \in {Al, Bo, OneLetter}, p \in {P1, ShortPhone, <<>>}}

ChangeArgs ==
    {<<>>, <<Al>>, <<Al, P1>>}
    \cup {<<n, o, p>> : n \in StoredNames, o \in ValidPhones,
                        p \in {P1, P2, ShortPhone}}
    \cup {<<n, P1, p, D1>> : n \in StoredNames, p \in {P2, ShortPhone}}

AddBirthdayArgs ==
    {<<>>, <<Al>>} \cup {<<n, b>> : n \in StoredNames, b \in DateInputs}

ShowArgs == {<<>>, <<Al>>, <<Bo>>}

\* the arguments str.split() can produce: no empty word
Split(argsets) == {a \in argsets : \A i \in 1..Len(a) : Len(a[i]) > 0}

Years == FirstYear..(FirstYear + NumYears - 1)

\* the values datetime.now() is drawn from
Nows ==
    {[date |-> [y |-> yy, m |-> mm, d |-> dd], tick |-> k] :
        yy \in Years, mm \in 1..12, dd \in 1..31, k \in 0..(TicksPerDay - 1)}

ValidNows == {n \in Nows : n.date.d <= DaysInMonth(n.date.y, n.date.m)}

----------------------------------------------------------------------------
(* State: the store (data), the last call made and what came of it (exc,   *)
(* ret, out), the clock read by the last query (today) and the state of    *)
(* the command loop (loop).                                                *)

Init ==
    /\ data = <<>>
    /\ call = [op |-> "", args |-> <<>>]
    /\ exc = "none"
    /\ ret = NoneRet
    /\ out = <<>>
    /\ today = [date |-> [y |-> FirstYear, m |-> 1, d |-> 1], tick |-> 0]
    /\ loop = "running"

\* a call of a handler or of a method by a client of the module
Called(op, args, r) ==
    /\ call' = [op |-> op, args |-> args]
    /\ data' = r.data
    /\ exc' = r.exc
    /\ ret' = r.ret
    /\ out' = r.out
    /\ UNCHANGED loop

\* a method called on the record stored under a name
OnRecord(book, r) ==
    [exc |-> r.exc, data |-> Store(book, r.rec), ret |-> NoneRet, out |-> <<>>]

CallAddContact ==
    \E args \in AddArgs :
        Called("add_contact", args, add_contact(args, data)) /\ UNCHANGED today

CallChangeContact ==
    \E args \in ChangeArgs :
        Called("change_contact", args, change_contact(args, data))
        /\ UNCHANGED today

CallAddBirthday ==
    \E args \in AddBirthdayArgs :
        Called("add_birthday", args, add_birthday(args, data))
        /\ UNCHANGED today

CallShowBirthday ==
    \E args \in ShowArgs :
        Called("show_birthday", args, show_birthday(args, data))
        /\ UNCHANGED today

CallShowPhone ==
    \E args \in ShowArgs :
        Called("show_phone", args, show_phone(args, data)) /\ UNCHANGED today

CallShowAll ==
    Called("show_all", <<>>, show_all(data)) /\ UNCHANGED today

RECURSIVE PhoneCount(_)
PhoneCount(book) ==
    IF Len(book) = 0 THEN 0 ELSE Len(book[1].phones) + PhoneCount(Tail(book))

RecAddPhone ==
    \E name \in Keys(data), value \in PhoneInputs :
        /\ PhoneCount(data) < MaxPhones
        /\ Called("Record.add_phone", <<name, value>>,
                  OnRecord(data, add_phone(find(data, name)[1], Str(value))))
        /\ UNCHANGED today

RecRemovePhone ==
    \E name \in Keys(data), value \in ValidPhones :
        Called("Record.remove_phone", <<name, value>>,
               OnRecord(data, remove_phone(find(data, name)[1], value)))
        /\ UNCHANGED today

RecEditPhone ==
    \E name \in Keys(data), old \in ValidPhones,
       new \in {P1, P2, ShortPhone} :
        Called("Record.edit_phone", <<name, old, new>>,
               OnRecord(data, edit_phone(find(data, name)[1], old, new)))
        /\ UNCHANGED today

RecAddBirthday ==
    \E name \in Keys(data), string \in DateInputs :
        Called("Record.add_birthday", <<name, string>>,
               OnRecord(data, Record_add_birthday(find(data, name)[1], string)))
        /\ UNCHANGED today

\* book.add_record(Record(name))
BookAddRecord ==
    \E name \in StoredNames \cup {OneLetter} :
        LET created == NewRecord(name) IN
        Called("AddressBook.add_record", <<name>>,
               IF created.exc # "none" THEN Raise(created.exc, data)
               ELSE Return(add_record(data, created.rec), NoneRet))
        /\ UNCHANGED today

BookDelete ==
    \E name \in StoredNames :
        Called("AddressBook.delete", <<name>>,
               IF delete(data, name) = None THEN Raise("ValueError", data)
               ELSE Return(delete(data, name)[1], NoneRet))
        /\ UNCHANGED today

Next ==
    \/ CallAddContact
    \/ CallChangeContact
    \/ CallAddBirthday
    \/ CallShowBirthday
    \/ CallShowPhone
    \/ CallShowAll
    \/ RecAddPhone
    \/ RecRemovePhone
    \/ RecEditPhone
    \/ RecAddBirthday
    \/ BookAddRecord
    \/ BookDelete

Spec == Init /\ [][Next]_vars

----------------------------------------------------------------------------
(* The birthday query, run at every instant of the clock on the stores that *)
(* add_record and add_birthday build: no record, one record, or Al's record *)
(* followed by Bo's.                                                        *)

BirthdayRecords ==
    {NewRecord(n).rec : n \in StoredNames}
    \cup {Record_add_birthday(NewRecord(n).rec, b).rec :
            n \in StoredNames, b \in BirthdayInputs}

BirthdayStores ==
    {<<>>} \cup {<<r>> : r \in BirthdayRecords}
    \cup {<<p[1], p[2]>> :
            p \in {q \in BirthdayRecords \X BirthdayRecords :
                     q[1].name = Al /\ q[2].name = Bo}}

InitBday ==
    /\ data \in BirthdayStores
    /\ call = [op |-> "", args |-> <<>>]
    /\ exc = "none"
    /\ ret = NoneRet
    /\ out = <<>>
    /\ today \in ValidNows
    /\ loop = "running"

\* book.get_upcoming_birthdays(), datetime.now() being today
CallGetUpcomingBirthdays ==
    LET r == get_upcoming_birthdays(data, today) IN
    /\ Called("AddressBook.get_upcoming_birthdays", <<>>,
              [exc |-> r.exc, data |-> data,
               ret |-> Msg(r.str), out |-> r.list])
    /\ UNCHANGED today

CallBirthdays ==
    Called("birthdays", <<>>, birthdays(data, today)) /\ UNCHANGED today

NextBday ==
    \/ CallGetUpcomingBirthdays
    \/ CallBirthdays

SpecBday == InitBday /\ [][NextBday]_vars

----------------------------------------------------------------------------
(* main(): the command loop.  A line is the sequence of its words; call    *)
(* holds the line read, out the lines printed for it.  loop is "running"   *)
(* at the prompt, "closed" after close/exit and "crashed" when an          *)
(* exception has left main().                                              *)

UpperChars == <<"A", "B", "C", "D", "E", "F", "G", "H", "I", "J", "K", "L", "M",
                "N", "O", "P", "Q", "R", "S", "T", "U", "V", "W", "X", "Y", "Z">>

LowerChars == <<"a", "b", "c", "d", "e", "f", "g", "h", "i", "j", "k", "l", "m",
                "n", "o", "p", "q", "r", "s", "t", "u", "v", "w", "x", "y", "z">>

\* str.lower()
lower(s) ==
    [i \in 1..Len(s) |->
        IF \E k \in 1..26 : UpperChars[k] = s[i]
        THEN LowerChars[CHOOSE k \in 1..26 : UpperChars[k] = s[i]]
        ELSE s[i]]

WHello == <<"h", "e", "l", "l", "o">>

WAdd == <<"a", "d", "d">>

WChange == <<"c", "h", "a", "n", "g", "e">>

WPhone == <<"p", "h", "o", "n", "e">>

WAll == <<"a", "l", "l">>

WAddBirthday == <<"a", "d", "d", "-", "b", "i", "r", "t", "h", "d", "a", "y">>

WShowBirthday == <<"s", "h", "o", "w", "-", "b", "i", "r", "t", "h", "d", "a", "y">>

WBirthdays == <<"b", "i", "r", "t", "h", "d", "a", "y", "s">>

WClose == <<"c", "l", "o", "s", "e">>

WExit == <<"e", "x", "i", "t">>

WExitCapital == <<"E", "x", "i", "t">>

WAddUpper == <<"A", "D", "D">>

WUnknown == <<"f", "o", "o">>

ArgWords == {Al, Bo, OneLetter, P1, ShortPhone, D1}

\* the argument lists typed after a command
MainArgs ==
    {<<>>} \cup {<<a>> : a \in ArgWords}
    \cup {<<a, b>> : a \in ArgWords, b \in ArgWords}
    \cup Split(ChangeArgs)

Lines ==
    {<<>>}
    \cup {<<w>> \o a : w \in {WHello, WAll, WBirthdays, WClose, WExit,
                              WExitCapital, WUnknown},
                       a \in {<<>>, <<Al>>}}
    \cup {<<w>> \o a : w \in {WAdd, WAddUpper, WChange, WPhone, WAddBirthday,
                              WShowBirthday},
                       a \in MainArgs}

\* parse_input: cmd, *args = user_input.split(); cmd.strip().lower()
parse_input(line) == [cmd |-> lower(Head(line)), args |-> Tail(line)]

\* main() runs a handler on the line read; printsRet: main() prints what
\* the handler returns
Dispatch(line, r, printsRet) ==
    /\ call' = [op |-> "main", args |-> line]
    /\ data' = r.data
    /\ exc' = r.exc
    /\ ret' = r.ret
    /\ out' = IF r.exc = "none" /\ printsRet THEN Append(r.out, r.ret) ELSE r.out
    /\ loop' = IF r.exc = "none" THEN "running" ELSE "crashed"
    /\ UNCHANGED today

\* the command read at the prompt
Reads(line, cmds) ==
    /\ loop = "running"
    /\ Len(line) > 0
    /\ parse_input(line).cmd \in cmds

\* an empty line: the unpacking in parse_input raises ValueError in main()
MainEmptyLine ==
    /\ loop = "running"
    /\ \E line \in Lines :
        /\ Len(line) = 0
        /\ Dispatch(line, Raise("ValueError", data), FALSE)

MainClose ==
    \E line \in Lines :
        /\ Reads(line, {WClose, WExit})
        /\ call' = [op |-> "main", args |-> line]
        /\ out' = <<Msg("Good bye!")>>
        /\ exc' = "none"
        /\ ret' = NoneRet
        /\ loop' = "closed"
        /\ UNCHANGED <<data, today>>

MainHello ==
    \E line \in Lines :
        /\ Reads(line, {WHello})
        /\ Dispatch(line, Return(data, Msg("How can I help you?")), TRUE)

MainAdd ==
    \E line \in Lines :
        /\ Reads(line, {WAdd})
        /\ Dispatch(line, add_contact(parse_input(line).args, data), TRUE)

MainChange ==
    \E line \in Lines :
        /\ Reads(line, {WChange})
        /\ Dispatch(line, change_contact(parse_input(line).args, data), TRUE)

MainPhone ==
    \E line \in Lines :
        /\ Reads(line, {WPhone})
        /\ Dispatch(line, show_phone(parse_input(line).args, data), TRUE)

MainAll ==
    \E line \in Lines :
        /\ Reads(line, {WAll})
        /\ Dispatch(line, show_all(data), TRUE)

MainBirthdays ==
    \E line \in Lines :
        /\ Reads(line, {WBirthdays})
        /\ Dispatch(line, birthdays(data, today), FALSE)

MainAddBirthday ==
    \E line \in Lines :
        /\ Reads(line, {WAddBirthday})
        /\ Dispatch(line, add_birthday(parse_input(line).args, data), TRUE)

MainShowBirthday ==
    \E line \in Lines :
        /\ Reads(line, {WShowBirthday})
        /\ Dispatch(line, show_birthday(parse_input(line).args, data), TRUE)

Commands ==
    {WClose, WExit, WHello, WAdd, WChange, WPhone, WAll, WBirthdays,
     WAddBirthday, WShowBirthday}

MainInvalid ==
    \E line \in Lines :
        /\ Reads(line, {parse_input(line).cmd} \ Commands)
        /\ Dispatch(line, Return(data, Msg("Invalid command.")), TRUE)

NextMain ==
    \/ MainEmptyLine
    \/ MainClose
    \/ MainHello
    \/ MainAdd
    \/ MainChange
    \/ MainPhone
    \/ MainAll
    \/ MainBirthdays
    \/ MainAddBirthday
    \/ MainShowBirthday
    \/ MainInvalid

SpecMain == Init /\ [][NextMain]_vars

----------------------------------------------------------------------------
(* Properties of the command loop (SpecMain) *)

\* C1: every command line read at the prompt gets one printed response and
\* the loop returns to the prompt; no exception ends the loop, only
\* close/exit does.
C1_NoFailureEndsLoop ==
    (call.op = "main" /\ Len(call.args) > 0) =>
        /\ exc = "none"
        /\ Len(out) = 1
        /\ loop # "crashed"
        /\ loop = "closed" => parse_input(call.args).cmd \in {WClose, WExit}

----------------------------------------------------------------------------
(* Properties of the handlers and of the record operations (Spec) *)

Failed == exc # "none" \/ ret.text \in {"Give me name and phone, please.",
                                         "This contact does not exist.",
                                         "Not enough arguments."}

PhonesOf(book, name) ==
    IF find(book, name) = None THEN <<>> ELSE find(book, name)[1].phones

BirthdayOf(book, name) ==
    IF find(book, name) = None THEN None ELSE find(book, name)[1].birthday

InList(list, x) == \E i \in 1..Len(list) : list[i] = x

\* C2: add with a name that is not in the store and a phone that fails
\* validation fails and leaves the store unchanged: no record for that name
\* exists afterwards.
C2_FailedAddLeavesStore ==
    [][(/\ call'.op = "add_contact"
        /\ Len(call'.args) = 2
        /\ call'.args[1] \notin Keys(data)
        /\ Len(call'.args[2]) > 0
        /\ Phone_validate(Str(call'.args[2])) = "False")
       => (/\ Failed'
           /\ data' = data
           /\ call'.args[1] \notin Keys(data'))]_vars

\* C3: add with a valid name and a valid 10-digit phone returns "Contact
\* added." (name absent before) or "Contact updated." (name present before)
\* and leaves a record for the name whose phone list is the previous list
\* with the phone appended.
C3_AddAppendsPhone ==
    [][(/\ call'.op = "add_contact"
        /\ Len(call'.args) = 2
        /\ Name_validate(Str(call'.args[1]))
        /\ Phone_validate(Str(call'.args[2])) = "True")
       => (/\ exc' = "none"
           /\ ret' = Msg(IF call'.args[1] \in Keys(data)
                         THEN "Contact updated." ELSE "Contact added.")
           /\ call'.args[1] \in Keys(data')
           /\ PhonesOf(data', call'.args[1])
                = Append(PhonesOf(data, call'.args[1]), call'.args[2]))]_vars

\* C7: edit_phone(old, new) with an invalid new fails with
\* PhoneValidationError and leaves the phone list as it was, whether or not
\* old is in the list; with a valid new and an absent old it fails and
\* leaves the list as it was.
C7_EditPhoneAtomic ==
    [][call'.op = "Record.edit_phone"
       => LET name == call'.args[1]
              old == call'.args[2]
              new == call'.args[3]
          IN /\ Phone_validate(Str(new)) # "True"
                  => /\ exc' = "PhoneValidationError"
                     /\ data' = data
             /\ (Phone_validate(Str(new)) = "True"
                 /\ ~InList(PhonesOf(data, name), old))
                  => /\ exc' # "none"
                     /\ data' = data]_vars

\* an invalid new phone was refused for a record that holds the old phone
\* and another one
C7_Witness ==
    /\ call.op = "Record.edit_phone"
    /\ exc = "PhoneValidationError"
    /\ Len(PhonesOf(data, call.args[1])) = 2
    /\ PhonesOf(data, call.args[1])[1] = call.args[2]
    /\ PhonesOf(data, call.args[1])[2] # call.args[2]

\* C8: every phone of every stored record is a string of exactly 10 digit
\* characters, whatever record operations and handler commands ran.
C8_StoredPhonesValid ==
    \A i \in 1..Len(data) : \A j \in 1..Len(data[i].phones) :
        /\ Len(data[i].phones[j]) = 10
        /\ \A k \in 1..10 : data[i].phones[j][k] \in Digits

\* an invalid phone was refused by add_phone for a record that holds a phone
C8_Witness ==
    /\ call.op = "Record.add_phone"
    /\ exc = "PhoneValidationError"
    /\ Phone_validate(Str(call.args[2])) = "False"
    /\ Len(PhonesOf(data, call.args[1])) > 0

\* C9: change with name, oldPhone, newPhone and a valid DD.MM.YYYY date, for
\* a contact that holds oldPhone, replaces the phone and sets the birthday to
\* the date; with name, oldPhone, newPhone alone it replaces the phone,
\* leaves the birthday unchanged and returns the success message.
C9_ChangeEditsPhoneAndBirthday ==
    [][(/\ call'.op = "change_contact"
        /\ Len(call'.args) \in {3, 4}
        /\ call'.args[1] \in Keys(data)
        /\ InList(PhonesOf(data, call'.args[1]), call'.args[2])
        /\ Phone_validate(Str(call'.args[3])) = "True"
        /\ Len(call'.args) = 4 => str_to_datetime(call'.args[4]) # None)
       => LET name == call'.args[1]
              before == find(data, name)[1]
          IN /\ exc' = "none"
             /\ ret' = Fmt("Contact {name} updated successfully.", name)
             /\ PhonesOf(data', name)
                  = edit_phone(before, call'.args[2], call'.args[3]).rec.phones
             /\ BirthdayOf(data', name)
                  = IF Len(call'.args) = 4
                    THEN str_to_datetime(call'.args[4])
                    ELSE before.birthday]_vars

----------------------------------------------------------------------------
(* Properties of the birthday query (SpecBday) *)

Queried == call.op = "AddressBook.get_upcoming_birthdays"

\* the entries reported for a name
EntriesOf(list, name) == SelectSeq(list, LAMBDA e : e.name = name)

Reported(name) == EntriesOf(out, name) # <<>>

SameMonthDay(a, b) == a.m = b.m /\ a.d = b.d

HasBirthday(i) == data[i].birthday # None

\* C4: the window is inclusive and 7 days long: a birthday that is today, or
\* 7 days after today, is reported; one that was yesterday, or is 8 days
\* after today, is not.
C4_InclusiveWindow ==
    (Queried /\ exc = "none") =>
        \A i \in 1..Len(data) : HasBirthday(i) =>
            LET b == data[i].birthday[1] IN
            /\ SameMonthDay(b, today.date) => Reported(data[i].name)
            /\ SameMonthDay(b, AddDays(today.date, 7)) => Reported(data[i].name)
            /\ SameMonthDay(NextDay([b EXCEPT !.y = today.date.y]), today.date)
                 => ~Reported(data[i].name)
            /\ SameMonthDay(b, AddDays(today.date, 8)) => ~Reported(data[i].name)

\* the birthday moved to a year, if that year has the day
InYear(b, y) == [b EXCEPT !.y = y]

ExistsIn(b, y) == b.d <= DaysInMonth(y, b.m)

\* C5: a birthday whose date in the current year is before today is moved
\* to the next year, and its record is reported exactly when that date is
\* within [today, today + 7 days], with that date as the greeting date
\* (before the weekend roll).
C5_YearBoundary ==
    Queried =>
        \A i \in 1..Len(data) :
            (/\ HasBirthday(i)
             /\ ExistsIn(data[i].birthday[1], today.date.y)
             /\ toordinal(InYear(data[i].birthday[1], today.date.y))
                  < toordinal(today.date))
            => LET b == data[i].birthday[1]
                   y1 == today.date.y + 1
                   within == /\ ExistsIn(b, y1)
                             /\ toordinal(today.date) <= toordinal(InYear(b, y1))
                             /\ toordinal(InYear(b, y1))
                                  <= toordinal(today.date) + 7
               IN /\ exc = "none"
                  /\ Reported(data[i].name) <=> within
                  /\ within => EntriesOf(out, data[i].name)
                                 = <<[name |-> data[i].name,
                                      birthday |-> strftime(Rollover(InYear(b, y1)))]>>

\* the first Monday after a Saturday or a Sunday, any other day unchanged
NextWeekday(g) ==
    IF weekday(g) = 5 THEN AddDays(g, 2)
    ELSE IF weekday(g) = 6 THEN AddDays(g, 1)
    ELSE g

\* C6: every greeting date reported is a Monday..Friday: the greeting date
\* of the record moved to the first Monday after it when it is a Saturday or
\* a Sunday, and unchanged otherwise.
C6_GreetingOnWeekday ==
    Queried =>
        \A k \in 1..Len(out) :
            LET g == Greeting(find(data, out[k].name)[1].birthday[1], today).date[1]
            IN /\ out[k].birthday = strftime(NextWeekday(g))
               /\ str_to_datetime(out[k].birthday) # None
               /\ weekday(str_to_datetime(out[k].birthday)[1]) \in 0..4

\* two records are reported, one whose greeting date fell on a Saturday and
\* one whose greeting date fell on a Sunday
C6_Witness ==
    /\ Queried
    /\ \E k \in 1..Len(out) :
         weekday(Greeting(find(data, out[k].name)[1].birthday[1], today).date[1]) = 5
    /\ \E k \in 1..Len(out) :
         weekday(Greeting(find(data, out[k].name)[1].birthday[1], today).date[1]) = 6

\* C10: what is reported for a record depends on that record and on today
\* alone: with any other record in the store the query still returns, with
\* the same entry for the record.
C10_RecordsIndependent ==
    Queried =>
        \A i \in 1..Len(data) :
            LET alone == get_upcoming_birthdays(<<data[i]>>, today) IN
            alone.exc = "none" =>
                /\ exc = "none"
                /\ EntriesOf(out, data[i].name) = alone.list

====
